---- MODULE Spec2Model ----
(***************************************************************************)
(* A model of src/to_do_list_app.py: the TodoApp task list (self.tasks),   *)
(* the backing file tasks.json, the Treeview rows, the list selector and   *)
(* the modal edit window, with one action per event handler.               *)
(*                                                                         *)
(* Text that the code inspects character by character (titles, due dates,  *)
(* notes, list names) is a sequence of one-character strings; priorities,  *)
(* ids and status labels are only compared for equality and are strings.   *)
(***************************************************************************)
EXTENDS Integers, Sequences, FiniteSets, TLC

VARIABLES
    tasks,        \* self.tasks: the in-memory list of task dicts
    file,         \* the content of DATA_FILE ('tasks.json')
    current_list, \* self.current_list
    list_values,  \* self.list_selector['values']
    tree,         \* the rows of self.tree, top to bottom
    edit,         \* 0, or the index in tasks of the dict bound in the open edit window
    dialog,       \* the messagebox shown by the last handler ("none" if none)
    exc,          \* the exception that escaped the last handler ("none" if it returned)
    alive,        \* FALSE once an exception escaped TodoApp.__init__ (process ended)
    failures,     \* number of saves that failed so far (bounded by MaxSaveFailures)
    disk,         \* "sound": every save succeeds; "failing": a save may fail
    last          \* the last handler run: [op, id, save]

vars == <<tasks, file, current_list, list_values, tree, edit, dialog, exc, alive, failures,
          disk, last>>

----------------------------------------------------------------------------
(* Bounds *)

\* Largest number of task records in the file the program starts from.
MaxTasks == 2

\* Largest number of failing saves in one behaviour.
MaxSaveFailures == 1

----------------------------------------------------------------------------
(* Text *)

\* The characters the model uses, in code-point order (Python compares str by code point).
Chars == <<"\n", " ", "-", "/", "0", "1", "2", "3", "5", "9",
           "B", "C", "H", "I", "W", "a", "b", "c", "d", "e", "g", "h", "i", "k", "l", "m",
           "n", "o", "p", "r", "t", "u", "w", "x", "y">>

Ord(c) == CHOOSE i \in 1..Len(Chars) : Chars[i] = c

UpperChars == <<"B", "C", "H", "I", "W">>

LowerChars == <<"b", "c", "h", "i", "w">>

\* str.lower() on one character
LowerChar(c) ==
    IF \E i \in 1..Len(UpperChars) : UpperChars[i] = c
    THEN LowerChars[CHOOSE i \in 1..Len(UpperChars) : UpperChars[i] = c]
    ELSE c

\* str.lower()
Lower(s) == [i \in 1..Len(s) |-> LowerChar(s[i])]

Whitespace == {" ", "\n"}

\* str.strip(): leading and trailing whitespace removed
Strip(s) ==
    LET keep == {i \in 1..Len(s) : s[i] \notin Whitespace}
    IN  IF keep = {} THEN <<>>
        ELSE LET lo == CHOOSE i \in keep : \A j \in keep : i <= j
                 hi == CHOOSE i \in keep : \A j \in keep : j <= i
             IN  SubSeq(s, lo, hi)

\* sub in s
Contains(s, sub) ==
    \E i \in 1..(Len(s) - Len(sub) + 1) : SubSeq(s, i, i + Len(sub) - 1) = sub

\* s < t for Python str (lexicographic by code point)
RECURSIVE StrLess(_, _)
StrLess(s, t) ==
    IF t = <<>> THEN FALSE
    ELSE IF s = <<>> THEN TRUE
    ELSE IF s[1] # t[1] THEN Ord(s[1]) < Ord(t[1])
    ELSE StrLess(Tail(s), Tail(t))

\* dict.get(key, default)
Get(task, key, default) == IF key \in DOMAIN task THEN task[key] ELSE default

----------------------------------------------------------------------------
(* datetime.strptime(date_str, "%Y-%m-%d") *)

Digits == <<"0", "1", "2", "3", "4", "5", "6", "7", "8", "9">>

IsDigit(c) == \E i \in 1..10 : Digits[i] = c

DigitVal(c) == (CHOOSE i \in 1..10 : Digits[i] = c) - 1

IsLeap(y) == y % 4 = 0 /\ (y % 100 # 0 \/ y % 400 = 0)

DaysInMonth(y, m) ==
    IF m = 2 THEN (IF IsLeap(y) THEN 29 ELSE 28)
    ELSE IF m \in {4, 6, 9, 11} THEN 30 ELSE 31

ValueError == [ok |-> FALSE, y |-> 0, m |-> 0, d |-> 0]

\* The %m token: 1[0-2] | 0[1-9] | [1-9]; 0 when the token is none of them.
MonthOf(tok) ==
    IF Len(tok) = 2 /\ IsDigit(tok[1]) /\ IsDigit(tok[2])
    THEN LET v == 10 * DigitVal(tok[1]) + DigitVal(tok[2])
         IN  IF v >= 1 /\ v <= 12 THEN v ELSE 0
    ELSE IF Len(tok) = 1 /\ IsDigit(tok[1]) THEN DigitVal(tok[1])
    ELSE 0

\* The %d token: 3[01] | [12]\d | 0[1-9] | [1-9] | " "[1-9]; 0 when it is none of
\* them (no match, or unconverted data remains).
DayOf(tok) ==
    IF Len(tok) = 2 /\ IsDigit(tok[1]) /\ IsDigit(tok[2])
    THEN LET v == 10 * DigitVal(tok[1]) + DigitVal(tok[2])
         IN  IF v >= 1 /\ v <= 31 THEN v ELSE 0
    ELSE IF Len(tok) = 2 /\ tok[1] = " " /\ IsDigit(tok[2]) THEN DigitVal(tok[2])
    ELSE IF Len(tok) = 1 /\ IsDigit(tok[1]) THEN DigitVal(tok[1])
    ELSE 0

\* The parsed date, or ValueError.
Strptime(s) ==
    IF ~(Len(s) >= 8 /\ (\A i \in 1..4 : IsDigit(s[i])) /\ s[5] = "-") THEN ValueError
    ELSE
    LET y    == 1000 * DigitVal(s[1]) + 100 * DigitVal(s[2]) + 10 * DigitVal(s[3]) + DigitVal(s[4])
        rest == SubSeq(s, 6, Len(s))
        dash == IF rest[2] = "-" THEN 2 ELSE IF rest[3] = "-" THEN 3 ELSE 0
    IN  IF dash = 0 THEN ValueError
        ELSE LET m == MonthOf(SubSeq(rest, 1, dash - 1))
                 d == DayOf(SubSeq(rest, dash + 1, Len(rest)))
             IN  IF m = 0 \/ d = 0 \/ y = 0 THEN ValueError
                 ELSE IF d > DaysInMonth(y, m) THEN ValueError
                 ELSE [ok |-> TRUE, y |-> y, m |-> m, d |-> d]

\* TodoApp._is_valid_date
IsValidDate(date_str) == Strptime(date_str).ok

----------------------------------------------------------------------------
(* Text constants *)

Inbox == <<"I", "n", "b", "o", "x">>

Work == <<"W", "o", "r", "k">>

Home == <<"H", "o", "m", "e">>

BuyMilk == <<"B", "u", "y", " ", "m", "i", "l", "k">>

Call == <<"C", "a", "l", "l">>

\* Strings typed into the quick-entry bar.
EntryTexts ==
    { <<>>,
      <<" ", " ">>,
      <<"B", "u", "y", " ", "m", "i", "l", "k", " ", "h", "i", "g", "h">>,
      <<"p", "2", " ", "C", "a", "l", "l">>,
      <<"C", "a", "l", "l", " ", "t", "o", "d", "a", "y">> }

\* Answers to the "New Project/List" prompt. The empty answer also stands for the
\* cancelled prompt: None and '' take the same branch of "if new_list_name and ...".
ListPrompts == {<<>>, Inbox, Home}

\* The contents of the edit window's fields when "Save Changes" is pressed.
EditForms ==
    { [title |-> Call, due_date |-> <<"2", "0", "3", "0", "-", "1", "-", "5">>,
       priority |-> "P2", is_recurring |-> TRUE, notes |-> <<" ", "x">>],
      [title |-> Call, due_date |-> <<"1", "3", "/", "0", "1", "/", "2", "0", "3", "0">>,
       priority |-> "P1", is_recurring |-> FALSE, notes |-> <<>>],
      [title |-> <<>>, due_date |-> <<>>,
       priority |-> "", is_recurring |-> FALSE, notes |-> <<>>] }

----------------------------------------------------------------------------
(* The task records the program starts from *)

T1 == [id |-> "t1", title |-> BuyMilk, due_date |-> <<>>, priority |-> "P3",
       is_done |-> FALSE, notes |-> <<>>, is_recurring |-> FALSE, list_name |-> Inbox]

T2 == [id |-> "t2", title |-> Call, due_date |-> <<>>, priority |-> "P1",
       is_done |-> FALSE, notes |-> <<>>, is_recurring |-> FALSE, list_name |-> Work]

\* A record without 'list_name' (read with task.get('list_name', 'Inbox')).
T3 == [id |-> "t3", title |-> BuyMilk,
       due_date |-> <<"2", "0", "3", "0", "-", "0", "1", "-", "1", "3">>, priority |-> "P2",
       is_done |-> FALSE, notes |-> <<>>, is_recurring |-> FALSE]

\* The records in the order the program would have appended them.
TaskPool == <<T1, T2, T3>>

\* A record of a file whose ids are not all different: json.load returns the
\* list as the file gives it and nothing in _load_tasks looks at the ids.
T1Again == [id |-> "t1", title |-> Call, due_date |-> <<>>, priority |-> "P1",
            is_done |-> FALSE, notes |-> <<>>, is_recurring |-> FALSE, list_name |-> Inbox]

AnyIdPool == <<T1, T2, T3, T1Again>>

\* The sub-lists of a list: its records in their order, any of them left out.
RECURSIVE SubLists(_)
SubLists(seq) ==
    IF seq = <<>> THEN {<<>>}
    ELSE LET rest == SubLists(Tail(seq))
         IN  rest \cup {<<Head(seq)>> \o r : r \in rest}

----------------------------------------------------------------------------
(* Persistence: _load_tasks and _save_tasks *)

MissingFile == [kind |-> "missing", data |-> <<>>]

\* A file that exists and makes json.load raise JSONDecodeError.
CorruptFile == [kind |-> "corrupt", data |-> <<>>]

\* json.dump(self.tasks, f, indent=4): the text of the whole list
JsonDump(ts) == [kind |-> "json", data |-> ts]

\* _load_tasks without the messagebox for an unreadable file
LoadTasks_Silent(f) ==
    IF f.kind = "json" THEN [value |-> f.data, dialog |-> "none", raised |-> "none"]
    ELSE [value |-> <<>>, dialog |-> "none", raised |-> "none"]

\* TodoApp._load_tasks: the list returned, the messagebox shown, the exception raised
LoadTasks(f) ==
    IF f.kind = "missing" THEN [value |-> <<>>, dialog |-> "none", raised |-> "none"]
    ELSE IF f.kind = "corrupt" THEN [value |-> <<>>, dialog |-> "load_error", raised |-> "none"]
    ELSE [value |-> f.data, dialog |-> "none", raised |-> "none"]

\* How one call of _save_tasks can end: it writes the list; open(DATA_FILE, 'w')
\* raises and the file is as before; or the write raises after open() truncated
\* the file, which is then no JSON document.
SaveOutcomes == {"ok", "open_fail", "write_fail"}

\* _save_tasks with the file opened in mode 'a': the text is written after what
\* the file held, which is then no JSON document.
SaveTasks_Appends(f, ts, outcome) ==
    IF outcome = "ok" THEN (IF f.kind = "missing" THEN JsonDump(ts) ELSE CorruptFile)
    ELSE IF outcome = "open_fail" THEN f
    ELSE CorruptFile

\* TodoApp._save_tasks: the file afterwards
SaveTasks(f, ts, outcome) ==
    IF outcome = "ok" THEN JsonDump(ts)
    ELSE IF outcome = "open_fail" THEN f
    ELSE CorruptFile

\* The messagebox _save_tasks shows
SaveDialog(outcome) == IF outcome = "ok" THEN "none" ELSE "save_error"

----------------------------------------------------------------------------
(* List names *)

ListNameOf(task) == Get(task, "list_name", Inbox)

\* sorted(...) of a set of str
RECURSIVE SortedSet(_)
SortedSet(S) ==
    IF S = {} THEN <<>>
    ELSE LET least == CHOOSE x \in S : \A y \in S : x = y \/ StrLess(x, y)
         IN  <<least>> \o SortedSet(S \ {least})

\* sorted(...) of a list of str
RECURSIVE SortedList(_)
SortedList(seq) ==
    IF seq = <<>> THEN <<>>
    ELSE LET x     == seq[Len(seq)]
             front == SortedList(SubSeq(seq, 1, Len(seq) - 1))
             k     == Cardinality({i \in 1..Len(front) : ~StrLess(x, front[i])})
         IN  SubSeq(front, 1, k) \o <<x>> \o SubSeq(front, k + 1, Len(front))

\* TodoApp._get_all_list_names
GetAllListNames(ts) == SortedSet({Inbox} \cup {ListNameOf(ts[i]) : i \in 1..Len(ts)})

InList(seq, x) == \E i \in 1..Len(seq) : seq[i] = x

----------------------------------------------------------------------------
(* refresh_task_view *)

\* priority_map.get(task.get('priority', ''), 4)
PriorityNum(task) ==
    LET p == Get(task, "priority", "")
    IN  IF p = "P1" THEN 1 ELSE IF p = "P2" THEN 2 ELSE IF p = "P3" THEN 3 ELSE 4

\* datetime.max, as <<year, month, day, time of day>>: a parsed date is at
\* 00:00:00 (0), datetime.max at 23:59:59.999999 (1).
DatetimeMax == <<9999, 12, 31, 1>>

\* sort_key raises ValueError on this task
SortKeyRaises(task) ==
    LET due == Get(task, "due_date", <<>>)
    IN  due # <<>> /\ ~Strptime(due).ok

\* sort_key(task) = (done_status, priority_num, date_sort_key), flattened
SortKey(task) ==
    LET due  == Get(task, "due_date", <<>>)
        date == IF due # <<>>
                THEN LET p == Strptime(due) IN <<p.y, p.m, p.d, 0>>
                ELSE DatetimeMax
    IN  <<IF task.is_done THEN 1 ELSE 0, PriorityNum(task)>> \o date

\* a < b for two keys (tuples of the same length)
RECURSIVE KeyLess(_, _)
KeyLess(a, b) ==
    IF a = <<>> THEN FALSE
    ELSE IF a[1] # b[1] THEN a[1] < b[1]
    ELSE KeyLess(Tail(a), Tail(b))

\* The position sorted() gives each item of a list with these keys: an item
\* goes after the items with a smaller key and, sorted() being stable, after the
\* items with an equal key that come before it.
SortRank(keys) ==
    [i \in 1..Len(keys) |->
        1 + Cardinality({j \in 1..Len(keys) :
                            KeyLess(keys[j], keys[i]) \/ (keys[j] = keys[i] /\ j < i)})]

\* The list with each item at its position.
Placed(seq, rank) == [r \in 1..Len(seq) |-> seq[CHOOSE i \in 1..Len(seq) : rank[i] = r]]

\* sorted(filtered_tasks, key=sort_key)
SortedTasks(seq) == Placed(seq, SortRank([i \in 1..Len(seq) |-> SortKey(seq[i])]))

\* [t for t in self.tasks if t.get('list_name', 'Inbox') == self.current_list]
FilteredTasks(ts, cl) == SelectSeq(ts, LAMBDA t : ListNameOf(t) = cl)

\* The row inserted for a task
Row(task) ==
    [text   |-> task.title,
     values |-> <<Get(task, "due_date", <<>>), Get(task, "priority", ""),
                  IF task.is_done THEN "Done" ELSE "Pending", task.id>>,
     tags   |-> <<IF task.is_done THEN "Done" ELSE Get(task, "priority", "P3"), "Treeview">>]

\* refresh_task_view: the rows and the selector's values afterwards, and the
\* exception that escapes. The rows are deleted before sorted() can raise.
RefreshView(ts, cl, vals) ==
    LET filtered == FilteredTasks(ts, cl)
    IN  IF \E i \in 1..Len(filtered) : SortKeyRaises(filtered[i])
        THEN [tree |-> <<>>, values |-> vals, exc |-> "ValueError"]
        ELSE LET sorted == SortedTasks(filtered)
             IN  [tree   |-> [i \in 1..Len(sorted) |-> Row(sorted[i])],
                  values |-> GetAllListNames(ts),
                  exc    |-> "none"]

----------------------------------------------------------------------------
(* add_task's keyword guesses *)

KwP1 == <<"p", "1">>
KwPriority1 == <<"p", "r", "i", "o", "r", "i", "t", "y", " ", "1">>
KwHigh == <<"h", "i", "g", "h">>
KwP2 == <<"p", "2">>
KwPriority2 == <<"p", "r", "i", "o", "r", "i", "t", "y", " ", "2">>
KwMedium == <<"m", "e", "d", "i", "u", "m">>
KwToday == <<"t", "o", "d", "a", "y">>
KwTomorrow == <<"t", "o", "m", "o", "r", "r", "o", "w">>

\* priority = "P3"; if any(...): "P1"; elif any(...): "P2"
GuessPriority(title) ==
    IF \E kw \in {KwP1, KwPriority1, KwHigh} : Contains(Lower(title), kw) THEN "P1"
    ELSE IF \E kw \in {KwP2, KwPriority2, KwMedium} : Contains(Lower(title), kw) THEN "P2"
    ELSE "P3"

\* due_date = ""; if "today" in ...: today; elif "tomorrow" in ...: tomorrow
GuessDueDate(title, today, tomorrow) ==
    IF Contains(Lower(title), KwToday) THEN today
    ELSE IF Contains(Lower(title), KwTomorrow) THEN tomorrow
    ELSE <<>>

\* What "datetime.now() + datetime.timedelta(days=1)" raises: datetime is the class
\* imported by "from datetime import datetime", which has no attribute timedelta.
TimedeltaLookup == "AttributeError"

\* Readings of datetime.now(): year, month, day, hour, minute, second, microsecond.
Clock ==
    { [Y |-> 2030, M |-> 1, D |-> 13, h |-> 9, m |-> 5, s |-> 7, us |-> 42],
      [Y |-> 2030, M |-> 1, D |-> 13, h |-> 9, m |-> 5, s |-> 7, us |-> 43] }

\* The decimal digits of n, zero-padded to width w (%Y, %m, %d, %H, %M, %S, %f).
RECURSIVE Pad(_, _)
Pad(n, w) == IF w = 0 THEN "" ELSE Pad(n \div 10, w - 1) \o Digits[(n % 10) + 1]

\* 'id': datetime.now().strftime('%Y%m%d%H%M%S%f'), the expression of line 166.
\* No handler evaluates it: add_task has raised at line 155.
NewId(now) ==
    Pad(now.Y, 4) \o Pad(now.M, 2) \o Pad(now.D, 2) \o
    Pad(now.h, 2) \o Pad(now.m, 2) \o Pad(now.s, 2) \o Pad(now.us, 6)

----------------------------------------------------------------------------
(* TodoApp.__init__ *)

NoOp == [op |-> "launch", id |-> "none", save |-> "none"]

\* The state TodoApp(root) leaves when the file holds f.
Construct(f) ==
    LET ld == LoadTasks(f)
    IN  [tasks |-> ld.value, current_list |-> Inbox, dialog |-> ld.dialog,
         view |-> RefreshView(ld.value, Inbox, GetAllListNames(ld.value))]

\* The files the program is first started on: none, an unreadable one, and lists
\* of well-formed records.
FilesOf(pool) ==
    {MissingFile, CorruptFile} \cup
    {JsonDump(ts) : ts \in {x \in SubLists(pool) : Len(x) >= 1 /\ Len(x) <= MaxTasks}}

InitFiles == FilesOf(TaskPool)

\* The same, and the lists in which two records have the same id.
AnyIdFiles == FilesOf(AnyIdPool)

\* The window stays only if __init__ returned.
Launched(c) ==
    /\ tasks = c.tasks
    /\ current_list = c.current_list
    /\ list_values = c.view.values
    /\ tree = c.view.tree
    /\ dialog = c.dialog
    /\ exc = c.view.exc
    /\ alive = (c.view.exc = "none")

InitOn(files, d) ==
    \E f \in files : \E c \in {Construct(f)} :
        /\ file = f
        /\ Launched(c)
        /\ edit = 0
        /\ failures = 0
        /\ disk = d
        /\ last = NoOp

\* The program started where the file can always be written.
Init == InitOn(InitFiles, "sound")

\* The program started where writing the file can fail.
InitDisk == InitOn(InitFiles, "failing")

\* The program started on any of the files, those with repeated ids included.
InitAnyIds == InitOn(AnyIdFiles, "sound")

----------------------------------------------------------------------------
(* The handlers *)

\* The index of the first task with this id, 0 if there is none.
IndexOfId(ts, task_id) ==
    IF \E i \in 1..Len(ts) : ts[i].id = task_id
    THEN CHOOSE i \in 1..Len(ts) : ts[i].id = task_id /\ \A j \in 1..(i - 1) : ts[j].id # task_id
    ELSE 0

\* mark_complete that sets the task done instead of flipping it
ToggleDone_SetsDone(ts, idx) == [ts EXCEPT ![idx].is_done = TRUE]

\* task['is_done'] = not task['is_done']
ToggleDone(ts, idx) == [ts EXCEPT ![idx].is_done = ~@]

\* del self.tasks[task_index]
DeleteAt(ts, idx) == SubSeq(ts, 1, idx - 1) \o SubSeq(ts, idx + 1, Len(ts))

\* notes_text.get('1.0', tk.END): the Text widget's content and its final newline
NotesText(form) == form.notes \o <<"\n">>

\* The five assignments at the head of save_and_close
UpdateTask(task, form) ==
    [task EXCEPT !.title = form.title,
                 !.due_date = form.due_date,
                 !.priority = form.priority,
                 !.is_recurring = form.is_recurring,
                 !.notes = Strip(NotesText(form))]

\* task['due_date'] and not self._is_valid_date(task['due_date'])
DateRejected(task) == task.due_date # <<>> /\ ~IsValidDate(task.due_date)

\* The outcomes a save can have here (failures are counted up to MaxSaveFailures).
AllowedOutcomes ==
    IF disk = "failing" /\ failures < MaxSaveFailures THEN SaveOutcomes ELSE {"ok"}

Op(op, id, save) == [op |-> op, id |-> id, save |-> save]

\* The handler returned without doing anything.
Returned(op, id) ==
    /\ dialog' = "none"
    /\ exc' = "none"
    /\ last' = Op(op, id, "none")
    /\ UNCHANGED <<tasks, file, current_list, list_values, tree, edit, alive, failures, disk>>

\* self._save_tasks(); self.refresh_task_view() on the list ts
SaveAndRefresh(ts, outcome) ==
    \E rv \in {RefreshView(ts, current_list, list_values)} :
        /\ tasks' = ts
        /\ file' = SaveTasks(file, ts, outcome)
        /\ failures' = IF outcome = "ok" THEN failures ELSE failures + 1
        /\ dialog' = SaveDialog(outcome)
        /\ tree' = rv.tree
        /\ list_values' = rv.values
        /\ exc' = rv.exc

\* _switch_list, on the selector value the user picked
SwitchListTo(new_list) ==
    /\ alive /\ edit = 0
    /\ IF new_list # <<>> /\ new_list # current_list
       THEN \E rv \in {RefreshView(tasks, new_list, list_values)} :
               /\ current_list' = new_list
               /\ tree' = rv.tree
               /\ list_values' = rv.values
               /\ exc' = rv.exc
               /\ dialog' = "none"
               /\ last' = Op("switch_list", "none", "none")
               /\ UNCHANGED <<tasks, file, edit, alive, failures, disk>>
       ELSE Returned("switch_list", "none")

SwitchList == \E k \in 1..Len(list_values) : SwitchListTo(list_values[k])

\* _add_new_list, on the answer to the prompt
AddNewListNamed(new_list_name) ==
    /\ alive /\ edit = 0
    /\ IF new_list_name # <<>> /\ ~InList(GetAllListNames(tasks), new_list_name)
       THEN \E rv \in {RefreshView(tasks, new_list_name,
                                   SortedList(Append(list_values, new_list_name)))} :
               /\ current_list' = new_list_name
               /\ tree' = rv.tree
               /\ list_values' = rv.values
               /\ exc' = rv.exc
               /\ dialog' = IF rv.exc = "none" THEN "list_created" ELSE "none"
               /\ last' = Op("add_new_list", "none", "none")
               /\ UNCHANGED <<tasks, file, edit, alive, failures, disk>>
       ELSE Returned("add_new_list", "none")

AddNewList == \E new_list_name \in ListPrompts : AddNewListNamed(new_list_name)

\* add_task, on the text of the quick-entry bar. With a non-blank title the
\* handler guesses the priority and then raises at line 155, before it builds
\* the task, appends it, clears the entry, saves or refreshes.
AddTaskOn(text) ==
    /\ alive /\ edit = 0
    /\ IF Strip(text) = <<>>
       THEN Returned("add_task", "none")
       ELSE /\ exc' = TimedeltaLookup
            /\ dialog' = "none"
            /\ last' = Op("add_task", "none", "none")
            /\ UNCHANGED <<tasks, file, current_list, list_values, tree, edit, alive, failures, disk>>

AddTask == \E text \in EntryTexts : AddTaskOn(text)

\* mark_complete from "task_id = ..." on
MarkCompleteId(task_id) ==
    /\ alive /\ edit = 0
    /\ \E idx \in {IndexOfId(tasks, task_id)} :
          IF idx = 0
          THEN Returned("mark_complete", task_id)
          ELSE \E outcome \in AllowedOutcomes :
                  /\ SaveAndRefresh(ToggleDone(tasks, idx), outcome)
                  /\ last' = Op("mark_complete", task_id, outcome)
                  /\ UNCHANGED <<current_list, edit, alive, disk>>

\* mark_complete, on the focused row (0: no row has the focus)
MarkComplete ==
    \E sel \in 0..Len(tree) :
        IF sel = 0
        THEN alive /\ edit = 0 /\ Returned("mark_complete", "none")
        ELSE MarkCompleteId(tree[sel].values[4])

\* delete_task from "task_id = ..." on
DeleteTaskId(task_id) ==
    /\ alive /\ edit = 0
    /\ \E idx \in {IndexOfId(tasks, task_id)} :
          IF idx = 0
          THEN Returned("delete_task", task_id)
          ELSE \E outcome \in AllowedOutcomes :
                  /\ SaveAndRefresh(DeleteAt(tasks, idx), outcome)
                  /\ last' = Op("delete_task", task_id, outcome)
                  /\ UNCHANGED <<current_list, edit, alive, disk>>

\* delete_task, on the focused row
DeleteTask ==
    \E sel \in 0..Len(tree) :
        IF sel = 0
        THEN alive /\ edit = 0 /\ Returned("delete_task", "none")
        ELSE DeleteTaskId(tree[sel].values[4])

\* edit_task_details, on the focused row: opens the modal window on the task
EditTaskDetails ==
    /\ alive /\ edit = 0
    /\ \E sel \in 0..Len(tree) :
          IF sel = 0
          THEN Returned("edit_task_details", "none")
          ELSE LET task_id == tree[sel].values[4]
                   idx     == IndexOfId(tasks, task_id)
               IN  IF idx = 0
                   THEN Returned("edit_task_details", task_id)
                   ELSE /\ edit' = idx
                        /\ dialog' = "none"
                        /\ exc' = "none"
                        /\ last' = Op("edit_task_details", task_id, "none")
                        /\ UNCHANGED <<tasks, file, current_list, list_values, tree, alive, failures, disk>>

\* save_and_close, on the content of the window's fields. The window is
\* destroyed only when the save and the refresh returned.
SaveAndCloseOn(form) ==
    /\ alive /\ edit # 0
    /\ \E ts \in {[tasks EXCEPT ![edit] = UpdateTask(@, form)]} :
           IF DateRejected(ts[edit])
           THEN /\ tasks' = ts
                /\ dialog' = "date_error"
                /\ exc' = "none"
                /\ last' = Op("save_and_close", ts[edit].id, "none")
                /\ UNCHANGED <<file, current_list, list_values, tree, edit, alive, failures, disk>>
           ELSE \E outcome \in AllowedOutcomes :
                   /\ SaveAndRefresh(ts, outcome)
                   /\ edit' = IF exc' = "none" THEN 0 ELSE edit
                   /\ last' = Op("save_and_close", ts[edit].id, outcome)
                   /\ UNCHANGED <<current_list, alive, disk>>

SaveAndClose == \E form \in EditForms : SaveAndCloseOn(form)

\* The edit window closed by the window manager, without "Save Changes".
CloseEdit ==
    /\ alive /\ edit # 0
    /\ edit' = 0
    /\ dialog' = "none"
    /\ exc' = "none"
    /\ last' = Op("close_edit", tasks[edit].id, "none")
    /\ UNCHANGED <<tasks, file, current_list, list_values, tree, alive, failures, disk>>

\* The program ended and started again: TodoApp(root) on the file as it is.
Relaunch ==
    \E c \in {Construct(file)} :
        /\ tasks' = c.tasks
        /\ current_list' = c.current_list
        /\ list_values' = c.view.values
        /\ tree' = c.view.tree
        /\ dialog' = c.dialog
        /\ exc' = c.view.exc
        /\ alive' = (c.view.exc = "none")
        /\ edit' = 0
        /\ last' = NoOp
        /\ UNCHANGED <<file, failures, disk>>

Next ==
    \/ SwitchList
    \/ AddNewList
    \/ AddTask
    \/ MarkComplete
    \/ DeleteTask
    \/ EditTaskDetails
    \/ SaveAndClose
    \/ CloseEdit
    \/ Relaunch

Spec == Init /\ [][Next]_vars

\* The same program where saves can fail.
SpecDisk == InitDisk /\ [][Next]_vars

\* The same program started on a file whose ids may repeat.
SpecAnyIds == InitAnyIds /\ [][Next]_vars

\* The handlers called by a caller that holds any id of the pool: mark_complete
\* entered with an id that is, or is not, in the store.
ToggleDoneCall == \E i \in 1..Len(TaskPool) : MarkCompleteId(TaskPool[i].id)

NextStore == Next \/ ToggleDoneCall

SpecStore == Init /\ [][NextStore]_vars

----------------------------------------------------------------------------
(* Claims *)

IdsOf(ts) == [i \in 1..Len(ts) |-> ts[i].id]

D13 == <<"2", "0", "3", "0", "-", "0", "1", "-", "1", "3">>

D14 == <<"2", "0", "3", "0", "-", "0", "1", "-", "1", "4">>

\* C1: an update whose due date is rejected (the error dialog is shown) leaves
\* every field of every task in the in-memory store as it was before the call.
C1_RejectedUpdateChangesNothing ==
    [][(last'.op = "save_and_close" /\ dialog' = "date_error") => tasks' = tasks]_vars

\* C2: add_task with a title that is not blank appends exactly one task at the
\* end of the store and leaves the others as they were; the new task has the
\* guessed priority and due date, is_done false, empty notes, is_recurring false
\* and the current list.
C2_CreateAppendsGuessedTask ==
    [][\A text \in EntryTexts :
          (Strip(text) # <<>> /\ AddTaskOn(text)) =>
              /\ Len(tasks') = Len(tasks) + 1
              /\ SubSeq(tasks', 1, Len(tasks)) = tasks
              /\ LET t == tasks'[Len(tasks')]
                 IN  /\ t.priority = GuessPriority(Strip(text))
                     /\ t.due_date = GuessDueDate(Strip(text), D13, D14)
                     /\ t.is_done = FALSE
                     /\ t.notes = <<>>
                     /\ t.is_recurring = FALSE
                     /\ t.list_name = current_list]_vars

\* C7: no handler ends in an exception that escapes it.
C7_NoUncaughtException == exc = "none"

\* C8: every task's title is non-empty after trimming whitespace.
C8_TitlesNotBlank == \A i \in 1..Len(tasks) : Strip(tasks[i].title) # <<>>

\* C3 (part): no two tasks of the store have the same id.
UniqueIds == \A i, j \in 1..Len(tasks) : i # j => tasks[i].id # tasks[j].id

\* C3 (part): a handler leaves the id of every task it keeps, in the order of
\* the store; delete_task removes one task; add_task may append one task, whose
\* id is the one line 166 generates and is the id of no task of the store.
IdsKept ==
    last'.op # "launch" =>
        \/ IdsOf(tasks') = IdsOf(tasks)
        \/ /\ last'.op = "delete_task"
           /\ \E k \in 1..Len(tasks) :
                 IdsOf(tasks') = SubSeq(IdsOf(tasks), 1, k - 1) \o
                                 SubSeq(IdsOf(tasks), k + 1, Len(tasks))
        \/ /\ last'.op = "add_task"
           /\ \E now \in Clock : IdsOf(tasks') = Append(IdsOf(tasks), NewId(now))
           /\ \A i \in 1..Len(tasks) : tasks[i].id # tasks'[Len(tasks')].id

ClaimRank(task) ==
    LET p == Get(task, "priority", "")
    IN  IF p = "P1" THEN 1 ELSE IF p = "P2" THEN 2 ELSE IF p = "P3" THEN 3 ELSE 4

DateBefore(a, b) ==
    /\ a # <<>>
    /\ \/ b = <<>>
       \/ LET x == Strptime(a)
              y == Strptime(b)
          IN  \/ x.y < y.y
              \/ x.y = y.y /\ x.m < y.m
              \/ x.y = y.y /\ x.m = y.m /\ x.d < y.d

Precedes(a, b) ==
    \/ ~a.is_done /\ b.is_done
    \/ a.is_done = b.is_done /\ ClaimRank(a) < ClaimRank(b)
    \/ /\ a.is_done = b.is_done
       /\ ClaimRank(a) = ClaimRank(b)
       /\ DateBefore(Get(a, "due_date", <<>>), Get(b, "due_date", <<>>))

\* rows is a permutation of exactly the tasks of list cl, in the claim's order,
\* tasks equal in the order keeping their order in the store.
IsProjection(rows, ts, cl) ==
    LET listed == {i \in 1..Len(ts) : Get(ts[i], "list_name", Inbox) = cl}
        src(k) == IndexOfId(ts, rows[k].values[4])
    IN  /\ Len(rows) = Cardinality(listed)
        /\ \A k \in 1..Len(rows) : src(k) \in listed /\ rows[k].text = ts[src(k)].title
        /\ \A k, m \in 1..Len(rows) : k # m => src(k) # src(m)
        /\ \A k, m \in 1..Len(rows) :
              k < m =>
                  /\ ~Precedes(ts[src(m)], ts[src(k)])
                  /\ ~Precedes(ts[src(k)], ts[src(m)]) => src(k) < src(m)

\* The last handler recomputed the view (refresh_task_view was called).
ViewRecomputed ==
    \/ last.op = "launch"
    \/ last.op \in {"mark_complete", "delete_task", "save_and_close"} /\ last.save # "none"

\* C4: the view computed for the selected list is a permutation of exactly the
\* tasks of that list, ordered by (is_done, priority rank, due date with no date
\* last), stable for equal keys.
C4_ViewIsSortedProjection == ViewRecomputed => IsProjection(tree, tasks, current_list)

\* l records a save of the list ts that, if it did not fail, left ts in the file f.
SavedBy(l, f, ts) ==
    /\ l.save \in SaveOutcomes
    /\ l.save = "ok" => f = [kind |-> "json", data |-> ts]

\* C5: every mutating operation (add_task with a title that is not blank,
\* mark_complete and delete_task on a known id, an accepted update) saves the
\* full list before it returns: if the save did not fail, the file holds the
\* in-memory list.
C5_MutationsAreSaved ==
    [][/\ \A text \in EntryTexts :
             (Strip(text) # <<>> /\ AddTaskOn(text)) => SavedBy(last', file', tasks')
       /\ (last'.op \in {"mark_complete", "delete_task"} /\ IndexOfId(tasks, last'.id) # 0)
             => SavedBy(last', file', tasks')
       /\ (last'.op = "save_and_close" /\ dialog' # "date_error")
             => SavedBy(last', file', tasks')]_vars

\* The program was just started on the file as it is now.
LaunchedOn(kind) == last.op = "launch" /\ file.kind = kind

\* C6: _load_tasks on a file whose text is not a JSON document ends in an error
\* outcome that differs from the empty list it returns for a missing file.
C6_CorruptLoadIsAnError ==
    LaunchedOn("corrupt") =>
        LET ld == LoadTasks(file)
            no == LoadTasks(MissingFile)
        IN  <<ld.value, ld.raised>> # <<no.value, no.raised>>

\* C6 as amended: _load_tasks on a file whose text json.load rejects with
\* JSONDecodeError shows the error dialog and returns the empty list itself, the
\* value it returns (without a dialog) for a missing file; the program starts on
\* the empty store.
C6_CorruptLoadFallsBackToEmpty ==
    /\ LaunchedOn("corrupt") =>
          tasks = <<>> /\ dialog = "load_error" /\ exc = "none" /\ alive
    /\ LaunchedOn("missing") =>
          tasks = <<>> /\ dialog = "none" /\ exc = "none" /\ alive

\* C6's case: the program was started on a file whose text is not a JSON document.
C6_Witness == LaunchedOn("corrupt") /\ tasks = <<>> /\ dialog = "load_error"

\* C9: mark_complete on the id of a stored task flips is_done of that task and
\* changes no other field, no other task and not the order; on an id that is
\* not in the store it changes no task and saves nothing.
C9_ToggleFlipsOnlyIsDone ==
    [][(last'.op = "mark_complete" /\ last'.id # "none") =>
          LET idx == IndexOfId(tasks, last'.id)
          IN  IF idx # 0
              THEN /\ Len(tasks') = Len(tasks)
                   /\ \A i \in 1..Len(tasks) :
                         IF i = idx
                         THEN /\ DOMAIN tasks'[i] = DOMAIN tasks[i]
                              /\ tasks'[i].is_done = ~tasks[i].is_done
                              /\ \A k \in DOMAIN tasks[i] \ {"is_done"} :
                                    tasks'[i][k] = tasks[i][k]
                         ELSE tasks'[i] = tasks[i]
              ELSE /\ tasks' = tasks
                   /\ file' = file
                   /\ last'.save = "none"
                   /\ dialog' = "none"]_vars

\* C9's case: mark_complete ran on an id that is not in a store of two tasks,
\* one of which an earlier mark_complete has set done.
C9_Witness ==
    /\ last.op = "mark_complete" /\ last.id # "none"
    /\ IndexOfId(tasks, last.id) = 0
    /\ Len(tasks) = 2
    /\ \E i \in 1..2 : tasks[i].is_done

\* C10: a failed save is reported by the error dialog and ends nothing; the
\* mutation stays in the in-memory store; a save that succeeds writes the
\* whole in-memory list.
C10_FailedSaveKeepsMemory ==
    [][/\ last'.save \in {"open_fail", "write_fail"} =>
             /\ dialog' = "save_error"
             /\ alive'
             /\ file' \in {file, CorruptFile}
             /\ last'.op = "mark_complete" =>
                   LET idx == IndexOfId(tasks, last'.id)
                   IN  /\ Len(tasks') = Len(tasks)
                       /\ tasks'[idx].is_done = ~tasks[idx].is_done
             /\ last'.op = "delete_task" =>
                   /\ Len(tasks') = Len(tasks) - 1
                   /\ IndexOfId(tasks', last'.id) = 0
             /\ last'.op = "save_and_close" =>
                   \E form \in EditForms :
                       /\ tasks'[edit].title = form.title
                       /\ tasks'[edit].due_date = form.due_date
                       /\ tasks'[edit].priority = form.priority
       /\ last'.save = "ok" =>
             /\ file' = [kind |-> "json", data |-> tasks']
             /\ dialog' = "none"]_vars

\* C10's case: after a save that failed, a later save succeeded and the file
\* holds the in-memory list, with two tasks marked done.
C10_Witness ==
    /\ failures = 1
    /\ last.save = "ok"
    /\ file.kind = "json" /\ file.data = tasks
    /\ Len(tasks) = 2 /\ tasks[1].is_done /\ tasks[2].is_done

====
